---- MODULE Spec2Model ----
(***************************************************************************)
(* hummerd/httpdump: the bounded-prefix reader and writer (package io) and *)
(* the dump middleware (package httpdump), as state machines.              *)
(*                                                                         *)
(*   SpecReader  one io.PrefixReader driven by Reset / Read / WriteTo      *)
(*   SpecWriter  one io.PrefixWriter driven by Reset / Write / ReadFrom    *)
(*   Spec        one Middleware.Handle call on a new Middleware, the       *)
(*               wrapped handler taken call by call, SetEnabled at any     *)
(*               step                                                      *)
(*   SpecSeq     Handle calls one after another over the same pools, the   *)
(*               wrapped handler being the test suite's, SetEnabled        *)
(*               between them                                              *)
(*   SpecConc    Handle calls running concurrently on several goroutines,  *)
(*               pooled readers and wrappers told apart by identity,       *)
(*               SetEnabled at any step                                    *)
(*   SpecFilter  filter chains built option by option and evaluated on     *)
(*               requests and responses                                    *)
(***************************************************************************)
EXTENDS Integers, Sequences, FiniteSets, TLC

VARIABLES
    rdr,        \* SpecReader: the io.PrefixReader
    rdrSrc,     \* SpecReader: the source it was last Reset onto
    rdrObs,     \* SpecReader: what its consumer has seen since that Reset
    wtr,        \* SpecWriter: the io.PrefixWriter
    wtrSink,    \* SpecWriter: the sink it was last Reset onto
    wtrObs,     \* SpecWriter: what its caller has seen since that Reset
    enabled,    \* Spec: Middleware.enabled
    mw,         \* Spec: the Middleware built by NewMiddleware
    readerPool, \* Spec: the readers in Middleware.readerPool
    writerPool, \* Spec: the wrappers in Middleware.writerPool
    started,    \* Spec: per exchange begun so far, the flag value its entry check read
    pc,         \* Spec: where the running Handle call stands ("idle": none runs)
    rq,         \* Spec: the request r of the running exchange
    rqBody,     \* Spec: the request's original body stream
    hcr,        \* Spec: the reader Handle took from the pool, if any
    hcw,        \* Spec: the wrapper Handle took from the pool, if any
    rw,         \* Spec: the response writer w that Handle was called with
    hs,         \* Spec: what the wrapped handler has done and seen
    calls,      \* Spec: the callback invocations of the exchange
    cx,         \* SpecConc: per goroutine, the Handle call it runs or ran last
    heap,       \* SpecConc: the readers and wrappers the pools' New made, by identity
    pools,      \* SpecConc: the identities in readerPool and in writerPool
    chainEval     \* SpecFilter: the latest evaluation of the two filter chains

rdrVars == <<rdr, rdrSrc, rdrObs>>

wtrVars == <<wtr, wtrSink, wtrObs>>

mwVars == <<enabled, mw, readerPool, writerPool, started, pc, rq, rqBody, hcr, hcw,
            rw, hs, calls>>

concVars == <<cx, heap, pools>>

fltVars == <<chainEval>>

vars == <<chainEval, cx, heap, pools, rdr, rdrSrc, rdrObs, wtr, wtrSink, wtrObs, enabled, mw, readerPool,
          writerPool, started, pc, rq, rqBody, hcr, hcw, rw, hs, calls>>

\* ------------------------------------------------------------------ bounds
MaxPrefixLen == 2       \* capture buffer sizes 1..MaxPrefixLen
MaxLen == 3             \* sources and bodies hold 0..MaxLen bytes
MaxBuf == 2             \* a caller's Read buffer holds 1..MaxBuf bytes
MaxWriteTo == 2         \* WriteTo calls between two Resets
MaxFed == 4             \* bytes written or transferred between two Resets
MaxBody == 2            \* Spec: a request body holds 0..MaxBody bytes
MaxEmit == 2            \* Spec: a handler emits 0..MaxEmit response bytes
MaxExchanges == 3       \* SpecSeq: exchanges run one after another
MaxConc == 2            \* SpecConc: goroutines running Handle
MaxStarts == 3          \* SpecConc: Handle calls begun in all
MaxChain == 3           \* SpecFilter: filters in a chain, the default one included
MaxAccept == 3          \* SpecSink: bytes a breaking sink still accepts

Byte == {1, 2}

\* a nil reference; objects are named by positive numbers
Nil == 0

\* ----------------------------------------------------------------- helpers
Min(a, b) == IF a < b THEN a ELSE b

Take(s, n) == SubSeq(s, 1, Min(n, Len(s)))

Drop(s, n) == SubSeq(s, n + 1, Len(s))

SeqsUpTo(S, n) == UNION {[1..k -> S] : k \in 0..n}

\* make([]byte, n)
MakeBytes(n) == [i \in 1..n |-> 0]

\* copy(dst[at:], data): dst with data laid over it from offset at
CopyAt(dst, at, data) ==
    [i \in 1..Len(dst) |->
        IF i > at /\ i <= at + Len(data) THEN data[i - at] ELSE dst[i]]

\* ------------------------------------------------------- the byte source
\* An io.Reader holding data, of which pos bytes are consumed; once the data
\* is used up every Read returns (0, endErr): io.EOF or another error.
Errors == {"EOF", "ERR"}

Sources == [data : SeqsUpTo(Byte, MaxLen), pos : {0}, endErr : Errors]

NoSource == [data |-> <<>>, pos |-> 0, endErr |-> "EOF"]

Remaining(s) == Len(s.data) - s.pos

Unread(s) == Drop(s.data, s.pos)

\* One r.Read(p) with len(p) = plen >= 1: any count 1..min(plen, remaining),
\* and the terminal condition either with the last bytes or on the next call.
SourceRead(s, plen) ==
    IF Remaining(s) = 0
    THEN {[n |-> 0, bytes |-> <<>>, err |-> s.endErr, src |-> s]}
    ELSE {o \in {[n |-> k,
                  bytes |-> SubSeq(s.data, s.pos + 1, s.pos + k),
                  err |-> e,
                  src |-> [s EXCEPT !.pos = @ + k]] :
                    k \in 1..Min(plen, Remaining(s)),
                    e \in {"nil", s.endErr}} :
            o.err = "nil" \/ o.n = Remaining(s)}

\* io.ReadAtLeast(r, buf, min) with len(buf) = min, as Reset and ReadFrom call
\* it: Reads until min bytes are in or the source reports its terminal
\* condition; a clean end after some bytes becomes io.ErrUnexpectedEOF.
ReadAtLeast(s, min) ==
    LET n == Min(min, Remaining(s))
    IN  [n |-> n,
         bytes |-> SubSeq(s.data, s.pos + 1, s.pos + n),
         err |-> IF n >= min THEN "nil"
                 ELSE IF n > 0 /\ s.endErr = "EOF" THEN "ErrUnexpectedEOF"
                 ELSE s.endErr,
         src |-> [s EXCEPT !.pos = @ + n]]

\* io.Copy(w, r) / r.WriteTo(w) onto a sink that accepts everything: the rest
\* of the source is transferred, a clean end is reported as nil.
CopyAll(s) ==
    [n |-> Remaining(s),
     bytes |-> Unread(s),
     err |-> IF s.endErr = "EOF" THEN "nil" ELSE s.endErr,
     src |-> [s EXCEPT !.pos = Len(s.data)]]

\* ------------------------------------------------------ io.PrefixReader
\* r names the source the reader is bound to (Nil: none).
NewPrefixReader(prefixLen) ==
    [r |-> Nil, read |-> 0, cached |-> 0, err |-> "nil",
     cache |-> MakeBytes(prefixLen)]

\* Reset(r): the result is the reader and the source after the eager fill.
PrefixReader_Reset(c, ref, s) ==
    LET ra == ReadAtLeast(s, Len(c.cache))
        e  == IF ra.err = "ErrUnexpectedEOF" THEN "EOF" ELSE ra.err
    IN  [cr |-> [r |-> ref, read |-> 0, cached |-> ra.n, err |-> e,
                 cache |-> CopyAt(c.cache, 0, ra.bytes)],
         src |-> ra.src,
         err |-> e]

\* Prefix that returns only the part not yet replayed
Mut_Prefix_FromCursor(c) == SubSeq(c.cache, c.read + 1, c.cached)

PrefixReader_Prefix(c) == SubSeq(c.cache, 1, c.cached)

\* Read that replays the cache without advancing the cursor
Mut_Read_NoAdvance(c, s, plen) ==
    LET l    == c.cached - c.read
        n    == IF l > 0 THEN Min(plen, l) ELSE 0
        head == SubSeq(c.cache, c.read + 1, c.read + n)
    IN  IF l > 0 /\ n = plen
        THEN {[cr |-> c, src |-> s, bytes |-> head, err |-> "nil",
               touched |-> FALSE]}
        ELSE IF c.err # "nil"
        THEN {[cr |-> c, src |-> s, bytes |-> head, err |-> c.err,
               touched |-> FALSE]}
        ELSE {[cr |-> c, src |-> o.src, bytes |-> head \o o.bytes, err |-> o.err,
               touched |-> TRUE] :
                o \in SourceRead(s, plen - n)}

\* Read that advances the cursor by the size of the caller's buffer
Mut_Read_AdvancesByBuffer(c, s, plen) ==
    LET l    == c.cached - c.read
        n    == IF l > 0 THEN Min(plen, l) ELSE 0
        head == SubSeq(c.cache, c.read + 1, c.read + n)
        c1   == [c EXCEPT !.read = IF l > 0 THEN @ + plen ELSE @]
    IN  IF l > 0 /\ n = plen
        THEN {[cr |-> c1, src |-> s, bytes |-> head, err |-> "nil",
               touched |-> FALSE]}
        ELSE IF c.err # "nil"
        THEN {[cr |-> c1, src |-> s, bytes |-> head, err |-> c.err,
               touched |-> FALSE]}
        ELSE {[cr |-> c1, src |-> o.src, bytes |-> head \o o.bytes, err |-> o.err,
               touched |-> TRUE] :
                o \in SourceRead(s, plen - n)}

\* Read(p) with len(p) = plen: every outcome the source allows; touched: the
\* call read the source.
PrefixReader_Read(c, s, plen) ==
    LET l    == c.cached - c.read
        n    == IF l > 0 THEN Min(plen, l) ELSE 0
        head == SubSeq(c.cache, c.read + 1, c.read + n)
        c1   == [c EXCEPT !.read = @ + n]
    IN  IF l > 0 /\ n = plen
        THEN {[cr |-> c1, src |-> s, bytes |-> head, err |-> "nil",
               touched |-> FALSE]}
        ELSE IF c.err # "nil"
        THEN {[cr |-> c1, src |-> s, bytes |-> head, err |-> c.err,
               touched |-> FALSE]}
        ELSE {[cr |-> c1, src |-> o.src, bytes |-> head \o o.bytes, err |-> o.err,
               touched |-> TRUE] :
                o \in SourceRead(s, plen - n)}

\* WriteTo that writes out the whole cache, replayed bytes included
Mut_WriteTo_WholeCache(c, s) ==
    LET head == SubSeq(c.cache, 1, c.cached)
        rest == CopyAll(s)
    IN  [cr |-> c, src |-> rest.src, bytes |-> head \o rest.bytes,
         n |-> Len(head) + rest.n, err |-> rest.err, touched |-> TRUE]

\* WriteTo(w) onto a sink that accepts everything.
PrefixReader_WriteTo(c, s) ==
    LET head == IF c.cached - c.read > 0
                THEN SubSeq(c.cache, c.read + 1, c.cached) ELSE <<>>
        rest == CopyAll(s)
    IN  [cr |-> c, src |-> rest.src, bytes |-> head \o rest.bytes,
         n |-> Len(head) + rest.n, err |-> rest.err, touched |-> TRUE]

\* -------------------------------------------------- http.ResponseWriter
\* The sink under the writer: the header map (its Content-Type value), the
\* committed status (0: nothing sent yet) and the body bytes sent. The sink
\* accepts every write.
StatusOK == 200

\* broken, left: a sink whose connection breaks accepts left more bytes and
\* then refuses; the sink of a live connection accepts everything.
NewResponseWriter ==
    [header |-> <<>>, status |-> 0, body |-> <<>>, broken |-> FALSE, left |-> 0]

ResponseWriter_WriteHeader(w, code) ==
    IF w.status # 0 THEN w
    ELSE [w EXCEPT !.status = code]

\* w.Write(data): the sink afterwards and the (n, err) it returns
ResponseWriter_WriteResult(w, data) ==
    LET w1 == ResponseWriter_WriteHeader(w, StatusOK)
        k  == IF w.broken THEN Min(Len(data), w.left) ELSE Len(data)
    IN  [w |-> [w1 EXCEPT !.body = @ \o Take(data, k),
                          !.left = IF w.broken THEN @ - k ELSE @],
         n |-> k,
         err |-> IF k < Len(data) THEN "ERR" ELSE "nil"]

ResponseWriter_Write(w, data) == ResponseWriter_WriteResult(w, data).w

\* ------------------------------------------------------ io.PrefixWriter
\* w names the sink the writer is bound to (Nil: none).
NewPrefixWriter(ref, prefixLen) ==
    [w |-> ref, cached |-> 0, cache |-> MakeBytes(prefixLen)]

PrefixWriter_Prefix(pw) == SubSeq(pw.cache, 1, pw.cached)

\* Reset that keeps the captured length
Mut_PrefixWriter_Reset_KeepsCached(pw, ref) == [pw EXCEPT !.w = ref]

PrefixWriter_Reset(pw, ref) == [pw EXCEPT !.w = ref, !.cached = 0]

\* Write that forwards only what did not fit the capture buffer
Mut_Write_ForwardsRest(pw, w, data) ==
    LET room == Len(pw.cache) - pw.cached
        l    == IF room > Len(data) THEN Len(data) ELSE room
        pw1  == IF room > 0
                THEN [pw EXCEPT !.cache = CopyAt(@, pw.cached, SubSeq(data, 1, l)),
                                !.cached = @ + l]
                ELSE pw
    IN  [pw |-> pw1,
         w |-> ResponseWriter_Write(w, IF room > 0 THEN Drop(data, l) ELSE data),
         n |-> Len(data), err |-> "nil"]

\* Write(data): the writer and the sink afterwards, and what Write returns.
PrefixWriter_Write(pw, w, data) ==
    LET room == Len(pw.cache) - pw.cached
        l    == IF room > Len(data) THEN Len(data) ELSE room
        pw1  == IF room > 0
                THEN [pw EXCEPT !.cache = CopyAt(@, pw.cached, SubSeq(data, 1, l)),
                                !.cached = @ + l]
                ELSE pw
        res  == ResponseWriter_WriteResult(w, data)
    IN  [pw |-> pw1, w |-> res.w, n |-> res.n, err |-> res.err]

\* ReadFrom that fills the buffer without advancing the captured length
Mut_ReadFrom_NoAdvance(pw, w, s) ==
    LET l   == Len(pw.cache) - pw.cached
        ra  == ReadAtLeast(s, l)
        pwA == [pw EXCEPT !.cache = CopyAt(@, pw.cached, ra.bytes)]
        wA  == IF ra.n > 0 THEN ResponseWriter_Write(w, ra.bytes) ELSE w
        errA == IF ra.n > 0 THEN "nil" ELSE ra.err
        pw1 == IF l > 0 THEN pwA ELSE pw
        w1  == IF l > 0 THEN wA ELSE w
        s1  == IF l > 0 THEN ra.src ELSE s
        n1  == IF l > 0 THEN ra.n ELSE 0
        cp  == CopyAll(s1)
    IN  IF l > 0 /\ errA # "nil"
        THEN [pw |-> pwA, w |-> wA, src |-> ra.src, n |-> ra.n,
              err |-> IF errA = "ErrUnexpectedEOF" THEN "EOF" ELSE errA]
        ELSE [pw |-> pw1,
              w |-> IF cp.n > 0 THEN ResponseWriter_Write(w1, cp.bytes) ELSE w1,
              src |-> cp.src, n |-> cp.n + n1, err |-> cp.err]

\* ReadFrom(r): the writer, the sink and the source afterwards, and what
\* ReadFrom returns.
PrefixWriter_ReadFrom(pw, w, s) ==
    LET l   == Len(pw.cache) - pw.cached
        ra  == ReadAtLeast(s, l)
        \* the block under "if l > 0"
        resA == ResponseWriter_WriteResult(w, ra.bytes)
        \* a failed Write returns before pw.cached is advanced
        pwA == IF ra.n > 0 /\ resA.err # "nil"
               THEN [pw EXCEPT !.cache = CopyAt(@, pw.cached, ra.bytes)]
               ELSE [pw EXCEPT !.cache = CopyAt(@, pw.cached, ra.bytes),
                               !.cached = @ + ra.n]
        wA  == IF ra.n > 0 THEN resA.w ELSE w
        \* err after the block: the sink's result replaces ReadAtLeast's
        \* whenever something was written
        errA == IF ra.n > 0 THEN resA.err ELSE ra.err
        \* the rest of the source, by the sink's ReadFrom or by io.Copy
        pw1 == IF l > 0 THEN pwA ELSE pw
        w1  == IF l > 0 THEN wA ELSE w
        s1  == IF l > 0 THEN ra.src ELSE s
        n1  == IF l > 0 THEN ra.n ELSE 0
        cp  == CopyAll(s1)
        resB == ResponseWriter_WriteResult(w1, cp.bytes)
    IN  IF l > 0 /\ errA # "nil"
        THEN [pw |-> pwA, w |-> wA, src |-> ra.src, n |-> ra.n,
              err |-> IF errA = "ErrUnexpectedEOF" THEN "EOF" ELSE errA]
        ELSE IF cp.n > 0
        THEN [pw |-> pw1, w |-> resB.w, src |-> cp.src, n |-> resB.n + n1,
              err |-> IF resB.err # "nil" THEN resB.err ELSE cp.err]
        ELSE [pw |-> pw1, w |-> w1, src |-> cp.src, n |-> n1, err |-> cp.err]

\* ------------------------------------------------- filters and options
\* A string is a sequence of pieces, so that strings.HasPrefix is a real
\* prefix test: "text/plain; charset=utf-8" is <<"text/plain", "; charset=utf-8">>
\* and an absent header is the empty string <<>>.
HasPrefix(s, prefix) ==
    Len(prefix) <= Len(s) /\ SubSeq(s, 1, Len(prefix)) = prefix

DefaultDumpedContentTypes ==
    << <<"application/json">>, <<"application/ld+json">>, <<"application/xml">>,
       <<"application/xhtml+xml">>, <<"application/x-www-form-urlencoded">>,
       <<"text/xml">>, <<"text/html">>, <<"text/plain">> >>

isDumpedContentType(header, contentTypes) ==
    IF \E i \in 1..Len(contentTypes) : HasPrefix(header, contentTypes[i])
    THEN [dump |-> TRUE, body |-> TRUE]
    ELSE [dump |-> TRUE, body |-> FALSE]

\* A *regexp.Regexp is the set of paths it matches.
MatchString(re, path) == path \in re

\* A filter function is one of: the content-type filter over a list of types,
\* the path filter over a list of regexps, or a caller's own predicate, which
\* here answers the same pair for every exchange.
FilterBodyByContentType(contentTypes) ==
    [kind |-> "contentType", types |-> contentTypes, regexps |-> <<>>,
     dump |-> TRUE, body |-> TRUE]

PathFilter(regexps) ==
    [kind |-> "path", types |-> <<>>, regexps |-> regexps,
     dump |-> TRUE, body |-> TRUE]

CustomFilter(dump, body) ==
    [kind |-> "custom", types |-> <<>>, regexps |-> <<>>,
     dump |-> dump, body |-> body]

\* f(r) for a RequestFilterFunc f
RequestFilter(f, r) ==
    IF f.kind = "contentType" THEN isDumpedContentType(r.header, f.types)
    ELSE IF f.kind = "path"
    THEN IF \E i \in 1..Len(f.regexps) : MatchString(f.regexps[i], r.path)
         THEN [dump |-> FALSE, body |-> FALSE]
         ELSE [dump |-> TRUE, body |-> TRUE]
    ELSE [dump |-> f.dump, body |-> f.body]

\* f(r, headers, status) for a ResponseFilterFunc f
ResponseFilter(f, r, headers, status) ==
    IF f.kind = "contentType" THEN isDumpedContentType(headers, f.types)
    ELSE IF f.kind = "path"
    THEN IF \E i \in 1..Len(f.regexps) : MatchString(f.regexps[i], r.path)
         THEN [dump |-> FALSE, body |-> FALSE]
         ELSE [dump |-> TRUE, body |-> TRUE]
    ELSE [dump |-> f.dump, body |-> f.body]

\* the loop of filterPassed with a body flag that no filter can clear
RECURSIVE Mut_filterPassedFrom_KeepsBody(_, _, _, _)
Mut_filterPassedFrom_KeepsBody(r, filters, i, b) ==
    IF i > Len(filters)
    THEN [dump |-> TRUE, body |-> b, calls |-> Len(filters)]
    ELSE LET res == RequestFilter(filters[i], r)
         IN  IF ~res.dump
             THEN [dump |-> FALSE, body |-> FALSE, calls |-> i]
             ELSE Mut_filterPassedFrom_KeepsBody(r, filters, i + 1, b)

\* the loop of filterPassed from filter i on, b the body flag so far; calls
\* counts the filters that were called
RECURSIVE filterPassedFrom(_, _, _, _)
filterPassedFrom(r, filters, i, b) ==
    IF i > Len(filters)
    THEN [dump |-> TRUE, body |-> b, calls |-> Len(filters)]
    ELSE LET res == RequestFilter(filters[i], r)
         IN  IF ~res.dump
             THEN [dump |-> FALSE, body |-> FALSE, calls |-> i]
             ELSE filterPassedFrom(r, filters, i + 1, IF ~res.body THEN FALSE ELSE b)

filterPassed(r, filters) == filterPassedFrom(r, filters, 1, TRUE)

\* the loop of cachedWriter.filtered going on past a veto
RECURSIVE Mut_filteredFrom_NoVeto(_, _, _, _, _, _)
Mut_filteredFrom_NoVeto(filters, r, headers, status, i, b) ==
    IF i > Len(filters)
    THEN [dump |-> TRUE, body |-> b, calls |-> Len(filters)]
    ELSE LET res == ResponseFilter(filters[i], r, headers, status)
         IN  Mut_filteredFrom_NoVeto(filters, r, headers, status, i + 1,
                                     IF ~res.body THEN FALSE ELSE b)

\* the loop of cachedWriter.filtered whose veto leaves the body flag as it was
RECURSIVE Mut_filteredFrom_VetoKeepsBody(_, _, _, _, _, _)
Mut_filteredFrom_VetoKeepsBody(filters, r, headers, status, i, b) ==
    IF i > Len(filters)
    THEN [dump |-> TRUE, body |-> b, calls |-> Len(filters)]
    ELSE LET res == ResponseFilter(filters[i], r, headers, status)
         IN  IF ~res.dump
             THEN [dump |-> FALSE, body |-> b, calls |-> i]
             ELSE Mut_filteredFrom_VetoKeepsBody(filters, r, headers, status, i + 1,
                                                 IF ~res.body THEN FALSE ELSE b)

\* the loop of cachedWriter.filtered
RECURSIVE filteredFrom(_, _, _, _, _, _)
filteredFrom(filters, r, headers, status, i, b) ==
    IF i > Len(filters)
    THEN [dump |-> TRUE, body |-> b, calls |-> Len(filters)]
    ELSE LET res == ResponseFilter(filters[i], r, headers, status)
         IN  IF ~res.dump
             THEN [dump |-> FALSE, body |-> FALSE, calls |-> i]
             ELSE filteredFrom(filters, r, headers, status, i + 1,
                               IF ~res.body THEN FALSE ELSE b)

\* Options, as data; ApplyOption is the call opt(m).
WithRequestFilters(filters) == [opt |-> "WithRequestFilters", filters |-> filters, limit |-> 0]

WithRequestPathFilter(regexps) ==
    [opt |-> "WithRequestFilters", filters |-> <<PathFilter(regexps)>>, limit |-> 0]

WithResponseFilters(filters) == [opt |-> "WithResponseFilters", filters |-> filters, limit |-> 0]

WithResponsePathFilter(regexps) ==
    [opt |-> "WithResponseFilters", filters |-> <<PathFilter(regexps)>>, limit |-> 0]

WithPathFilter(regexps) ==
    [opt |-> "WithPathFilter", filters |-> <<PathFilter(regexps)>>, limit |-> 0]

\* limit > 0; any other limit panics before a Middleware exists
WithLimitedBody(limit) == [opt |-> "WithLimitedBody", filters |-> <<>>, limit |-> limit]

ApplyOption(m, o) ==
    IF o.opt = "WithRequestFilters"
    THEN [m EXCEPT !.requestFilters = @ \o o.filters]
    ELSE IF o.opt = "WithResponseFilters"
    THEN [m EXCEPT !.responseFilters = @ \o o.filters]
    ELSE IF o.opt = "WithPathFilter"
    THEN [m EXCEPT !.requestFilters = @ \o o.filters,
                   !.responseFilters = @ \o o.filters]
    ELSE [m EXCEPT !.dumpedBodySize = o.limit]

RECURSIVE ApplyOptions(_, _)
ApplyOptions(m, opts) ==
    IF opts = <<>> THEN m
    ELSE ApplyOptions(ApplyOption(m, Head(opts)), Tail(opts))

DefaultBodySize == 1024

\* dumpRequest, dumpResponse: whether the callback is non-nil
NewMiddleware(dumpRequest, dumpResponse, opts) ==
    ApplyOptions(
        [requestFilters |-> <<FilterBodyByContentType(DefaultDumpedContentTypes)>>,
         responseFilters |-> <<FilterBodyByContentType(DefaultDumpedContentTypes)>>,
         dumpRequest |-> dumpRequest,
         dumpResponse |-> dumpResponse,
         dumpedBodySize |-> DefaultBodySize],
        opts)

\* needDumpRequest without the test for a nil callback
Mut_needDumpRequest_NoNilCheck(m, r) == filterPassed(r, m.requestFilters)

needDumpRequest(m, r) ==
    IF ~m.dumpRequest THEN [dump |-> FALSE, body |-> FALSE, calls |-> 0]
    ELSE filterPassed(r, m.requestFilters)

\* ---------------------------------------------------------- cachedWriter
newCachedWriter(s) ==
    [PrefixWriter |-> NewPrefixWriter(Nil, s), w |-> Nil, statusCode |-> 0,
     request |-> Nil, written |-> FALSE, dumpBody |-> FALSE,
     dumpResponse |-> FALSE, filters |-> <<>>]

cachedWriter_Status(cw) == IF cw.statusCode = 0 THEN StatusOK ELSE cw.statusCode

\* Reset that keeps the decision of the exchange before
Mut_cachedWriter_Reset_KeepsDecision(cw, wref, rref, filters) ==
    [cw EXCEPT !.PrefixWriter = PrefixWriter_Reset(@, wref),
               !.w = wref, !.statusCode = 0, !.request = rref,
               !.filters = filters]

cachedWriter_Reset(cw, wref, rref, filters) ==
    [cw EXCEPT !.PrefixWriter = PrefixWriter_Reset(@, wref),
               !.w = wref, !.statusCode = 0, !.request = rref,
               !.written = FALSE, !.dumpBody = FALSE, !.dumpResponse = FALSE,
               !.filters = filters]

filtered(cw, r, headers, status) ==
    filteredFrom(cw.filters, r, headers, status, 1, TRUE)

\* EnsureFilterPassed that does not note that it has run
Mut_EnsureFilterPassed_NotNoted(cw, r, w) ==
    IF cw.written THEN cw
    ELSE LET sc == IF cw.statusCode = 0 THEN StatusOK ELSE cw.statusCode
             f  == filtered(cw, r, w.header, sc)
         IN  [cw EXCEPT !.statusCode = sc, !.dumpBody = f.body,
                        !.dumpResponse = f.dump]

\* EnsureFilterPassed that takes every response for dumping
Mut_EnsureFilterPassed_AlwaysDump(cw, r, w) ==
    IF cw.written THEN cw
    ELSE LET sc == IF cw.statusCode = 0 THEN StatusOK ELSE cw.statusCode
             f  == filtered(cw, r, w.header, sc)
         IN  [cw EXCEPT !.statusCode = sc, !.dumpBody = f.body,
                        !.dumpResponse = TRUE, !.written = TRUE]

\* EnsureFilterPassed(): r is the request cw.request names, w the sink cw.w
\* names.
cachedWriter_EnsureFilterPassed(cw, r, w) ==
    IF cw.written THEN cw
    ELSE LET sc == IF cw.statusCode = 0 THEN StatusOK ELSE cw.statusCode
             f  == filtered(cw, r, w.header, sc)
         IN  [cw EXCEPT !.statusCode = sc, !.dumpBody = f.body,
                        !.dumpResponse = f.dump, !.written = TRUE]

\* Write(data): the wrapper and the sink afterwards, and what Write returns.
cachedWriter_Write(cw, r, w, data) ==
    LET cw1 == cachedWriter_EnsureFilterPassed(cw, r, w)
    IN  IF ~cw1.dumpBody
        THEN LET res == ResponseWriter_WriteResult(w, data)
             IN  [cw |-> cw1, w |-> res.w, n |-> res.n, err |-> res.err]
        ELSE LET o == PrefixWriter_Write(cw1.PrefixWriter, w, data)
             IN  [cw |-> [cw1 EXCEPT !.PrefixWriter = o.pw], w |-> o.w,
                  n |-> IF o.err # "nil" THEN 0 ELSE o.n, err |-> o.err]

cachedWriter_WriteHeader(cw, w, statusCode) ==
    [cw |-> IF cw.statusCode = 0 THEN [cw EXCEPT !.statusCode = statusCode] ELSE cw,
     w |-> ResponseWriter_WriteHeader(w, statusCode)]

\* ReadFrom(r): cachedWriter embeds io.PrefixWriter and declares no ReadFrom
\* of its own, so the embedded method is the wrapper's ReadFrom.
cachedWriter_ReadFrom(cw, w, s) ==
    LET o == PrefixWriter_ReadFrom(cw.PrefixWriter, w, s)
    IN  [cw |-> [cw EXCEPT !.PrefixWriter = o.pw], w |-> o.w, src |-> o.src,
         n |-> o.n, err |-> o.err]

cachedWriter_Prefix(cw) == PrefixWriter_Prefix(cw.PrefixWriter)

\* ============================================================ SpecReader
\* got: bytes the Reads returned; last: the latest Read's error ("none"
\* before the first); ended: some Read reported a non-nil error; gotAtEnd:
\* got as it was after the first such Read; dst: bytes WriteTo delivered;
\* writeTos: WriteTo calls.
NoReads ==
    [got |-> <<>>, last |-> "none", ended |-> FALSE, gotAtEnd |-> <<>>,
     dst |-> <<>>, writeTos |-> 0, wrote |-> 0, wroteErr |-> "nil",
     closed |-> FALSE, reread |-> FALSE]

RdrReset ==
    \E s \in Sources :
        LET o == PrefixReader_Reset(rdr, 1, s)
        IN  /\ rdr' = o.cr
            /\ rdrSrc' = o.src
            /\ rdrObs' = NoReads
            /\ UNCHANGED <<wtrVars, mwVars, concVars, fltVars>>

RdrRead ==
    /\ rdr.r # Nil
    /\ \E plen \in 1..MaxBuf :
        \E o \in PrefixReader_Read(rdr, rdrSrc, plen) :
            /\ rdr' = o.cr
            /\ rdrSrc' = o.src
            /\ rdrObs' = [rdrObs EXCEPT
                    !.got = @ \o o.bytes,
                    !.last = o.err,
                    !.ended = @ \/ o.err # "nil",
                    !.reread = @ \/ (o.touched /\ rdr.err # "nil"),
                    !.gotAtEnd = IF rdrObs.ended THEN @
                                 ELSE IF o.err # "nil" THEN rdrObs.got \o o.bytes
                                 ELSE <<>>]
            /\ UNCHANGED <<wtrVars, mwVars, concVars, fltVars>>

RdrWriteTo ==
    /\ rdr.r # Nil
    /\ rdrObs.writeTos < MaxWriteTo
    /\ LET o == PrefixReader_WriteTo(rdr, rdrSrc)
       IN  /\ rdr' = o.cr
           /\ rdrSrc' = o.src
           /\ rdrObs' = [rdrObs EXCEPT !.dst = @ \o o.bytes, !.writeTos = @ + 1,
                                    !.wrote = o.n, !.wroteErr = o.err,
                                    !.reread = @ \/ (o.touched /\ rdr.err # "nil")]
    /\ UNCHANGED <<wtrVars, mwVars, concVars, fltVars>>

\* Close(): the source's Close when it has one, here one without effect on
\* later Reads (an io.NopCloser); no field of the reader is assigned
RdrClose ==
    /\ rdr.r # Nil
    /\ ~rdrObs.closed
    /\ rdrObs' = [rdrObs EXCEPT !.closed = TRUE]
    /\ UNCHANGED <<rdr, rdrSrc, wtrVars, mwVars, concVars, fltVars>>

RdrNext == RdrReset \/ RdrRead \/ RdrWriteTo \/ RdrClose

\* ============================================================ SpecWriter
\* fed: all data written or transferred; op, n, err: the latest call and what
\* it returned; before: the captured length when that call began.
NoWrites ==
    [fed |-> <<>>, op |-> "none", data |-> <<>>, end |-> "EOF", n |-> 0,
     err |-> "nil", before |-> 0]

WtrReset ==
    /\ wtr' = PrefixWriter_Reset(wtr, 1)
    /\ wtrSink' = NewResponseWriter
    /\ wtrObs' = NoWrites
    /\ UNCHANGED <<rdrVars, mwVars, concVars, fltVars>>

WtrWrite ==
    /\ wtr.w # Nil
    /\ \E data \in SeqsUpTo(Byte, MaxBuf) :
        /\ Len(wtrObs.fed) + Len(data) <= MaxFed
        /\ LET o == PrefixWriter_Write(wtr, wtrSink, data)
           IN  /\ wtr' = o.pw
               /\ wtrSink' = o.w
               /\ wtrObs' = [fed |-> wtrObs.fed \o data, op |-> "Write",
                             data |-> data, end |-> "EOF",
                             n |-> o.n, err |-> o.err, before |-> wtr.cached]
    /\ UNCHANGED <<rdrVars, mwVars, concVars, fltVars>>

WtrReadFrom ==
    /\ wtr.w # Nil
    /\ \E s \in Sources :
        /\ Len(wtrObs.fed) + Len(s.data) <= MaxFed
        /\ LET o == PrefixWriter_ReadFrom(wtr, wtrSink, s)
           IN  /\ wtr' = o.pw
               /\ wtrSink' = o.w
               /\ wtrObs' = [fed |-> wtrObs.fed \o s.data, op |-> "ReadFrom", data |-> s.data,
                             end |-> s.endErr,
                             n |-> o.n, err |-> o.err, before |-> wtr.cached]
    /\ UNCHANGED <<rdrVars, mwVars, concVars, fltVars>>

WtrNext == WtrReset \/ WtrWrite \/ WtrReadFrom

\* ================================================================== Spec
\* Middleware.Handle, one exchange after another. The bytes of exchange k are
\* numbered by k and by their place in the stream (the program never looks at
\* a byte's value), so only lengths and chunkings are chosen.
ReqBytes(k, n) == [i \in 1..n |-> 10 * k + i]

RespBytes(k, from, n) == [i \in 1..n |-> 100 + 10 * k + from + i]

Paths == {"/somepath", "/other"}

RequestContentTypes == {<<>>, <<"application/json">>}

ResponseContentTypes == {<<"text/plain", "; charset=utf-8">>}

StatusCodes == {200, 404}

\* regexp.MustCompile("somepath")
SomePath == {"/somepath"}

\* The calls of NewMiddleware: whether each callback is non-nil, and the
\* options.
Configs ==
    { [dq |-> TRUE, dp |-> TRUE, opts |-> <<WithLimitedBody(1)>>],
      [dq |-> TRUE, dp |-> TRUE, opts |-> <<WithLimitedBody(MaxPrefixLen)>>],
      [dq |-> TRUE, dp |-> FALSE, opts |-> <<WithLimitedBody(MaxPrefixLen)>>],
      [dq |-> FALSE, dp |-> TRUE, opts |-> <<WithLimitedBody(MaxPrefixLen)>>],
      [dq |-> FALSE, dp |-> FALSE, opts |-> <<WithLimitedBody(MaxPrefixLen)>>],
      [dq |-> TRUE, dp |-> TRUE,
       opts |-> <<WithLimitedBody(MaxPrefixLen), WithPathFilter(<<SomePath>>)>>],
      [dq |-> TRUE, dp |-> TRUE,
       opts |-> <<WithRequestPathFilter(<<SomePath>>), WithLimitedBody(MaxPrefixLen),
                  WithResponseFilters(<<CustomFilter(TRUE, FALSE)>>)>>],
      [dq |-> TRUE, dp |-> TRUE,
       opts |-> <<WithLimitedBody(MaxPrefixLen),
                  WithRequestFilters(<<CustomFilter(TRUE, FALSE)>>),
                  WithResponsePathFilter(<<SomePath>>)>>],
      [dq |-> TRUE, dp |-> TRUE,
       opts |-> <<WithLimitedBody(MaxPrefixLen),
                  WithRequestFilters(<<CustomFilter(FALSE, TRUE), CustomFilter(TRUE, TRUE)>>),
                  WithResponseFilters(<<CustomFilter(TRUE, TRUE), CustomFilter(FALSE, TRUE)>>)>>] }

NoReader == NewPrefixReader(0)

NoWriter == newCachedWriter(0)

NoBytes == [nil |-> TRUE, bytes |-> <<>>]

Bytes(b) == [nil |-> FALSE, bytes |-> b]

\* passed: the flag value the entry check read; hasCr: r.Body is the reader;
\* hasCw: the handler's w is the wrapper; responding: the handler has turned
\* to the response; got, readErr: bytes and latest error of its body Reads;
\* emitted: the response bytes it wrote or transferred.
NoHandler ==
    [passed |-> FALSE, hasCr |-> FALSE, hasCw |-> FALSE, responding |-> FALSE,
     got |-> <<>>, readErr |-> "none", emitted |-> <<>>,
     committed |-> FALSE, commitHeader |-> <<>>, commitStatus |-> 0]

\* the handler's state after it calls WriteHeader(code) or Write on sink w,
\* code being StatusOK for a Write: the first of these calls is where net/http
\* fixes the status and the headers of the response
Committing(h, w, code) ==
    IF h.committed THEN [h EXCEPT !.responding = TRUE]
    ELSE [h EXCEPT !.responding = TRUE, !.committed = TRUE,
                   !.commitHeader = w.header,
                   !.commitStatus = IF w.status = 0 THEN code ELSE w.status]

\* req, resp: invocations of the two callbacks; reqBody, respBody, respStatus,
\* respHeader: their arguments; evals: evaluations of the response filter
\* chain; evalHeader, evalStatus: the headers and status it was evaluated on.
NoCalls ==
    [req |-> 0, reqBody |-> NoBytes, resp |-> 0, respBody |-> NoBytes,
     respStatus |-> 0, respHeader |-> <<>>, evals |-> 0, evalHeader |-> <<>>,
     evalStatus |-> 0]

\* the record of calls after cw.EnsureFilterPassed() on sink w: the chain is
\* evaluated unless it was already
Evaluated(c, cw, w) ==
    IF cw.written THEN c
    ELSE [c EXCEPT !.evals = @ + 1,
                   !.evalHeader = w.header,
                   !.evalStatus = IF cw.statusCode = 0 THEN StatusOK
                                  ELSE cw.statusCode]

NoRequest == [id |-> Nil, path |-> "/other", header |-> <<>>]

\* sync.Pool.Get: a pooled instance if there is one, else New()
PoolGet(pool, new) == IF pool = {} THEN {new} ELSE pool

SetEnabled ==
    /\ \E v \in BOOLEAN : enabled' = v
    /\ enabled' # enabled
    /\ UNCHANGED <<rdrVars, wtrVars, concVars, fltVars, mw, readerPool, writerPool, started, pc, rq,
                   rqBody, hcr, hcw, rw, hs, calls>>

\* Handle is called with a new request and response writer and reads the flag.
HandleEnter ==
    /\ pc = "idle"
    /\ Len(started) < MaxExchanges
    /\ \E path \in Paths, header \in RequestContentTypes, n \in 0..MaxBody :
        /\ rq' = [id |-> Len(started) + 1, path |-> path, header |-> header]
        /\ rqBody' = [data |-> ReqBytes(Len(started) + 1, n), pos |-> 0,
                      endErr |-> "EOF"]
    /\ started' = Append(started, enabled)
    /\ rw' = NewResponseWriter
    /\ hcr' = NoReader
    /\ hcw' = NoWriter
    /\ hs' = [NoHandler EXCEPT !.passed = enabled]
    /\ calls' = NoCalls
    /\ pc' = IF enabled THEN "request" ELSE "handler"
    /\ UNCHANGED <<rdrVars, wtrVars, concVars, fltVars, enabled, mw, readerPool, writerPool>>

\* the first Handle call on the Middleware
HandleFirst ==
    /\ started = <<>>
    /\ HandleEnter

\* needDumpRequest and the "if dumpReq" block
HandleDumpRequest ==
    /\ pc = "request"
    /\ LET d == needDumpRequest(mw, rq)
       IN  IF d.dump /\ d.body
           THEN \E inst \in PoolGet(readerPool, NewPrefixReader(mw.dumpedBodySize)) :
                    LET o == PrefixReader_Reset(inst, rq.id, rqBody)
                    IN  /\ readerPool' = readerPool \ {inst}
                        /\ hcr' = o.cr
                        /\ rqBody' = o.src
                        /\ hs' = [hs EXCEPT !.hasCr = TRUE]
                        /\ calls' = [calls EXCEPT
                                !.req = @ + 1,
                                !.reqBody = Bytes(PrefixReader_Prefix(o.cr))]
           ELSE /\ calls' = IF d.dump
                            THEN [calls EXCEPT !.req = @ + 1, !.reqBody = NoBytes]
                            ELSE calls
                /\ UNCHANGED <<readerPool, hcr, rqBody, hs>>
    /\ pc' = "wrap"
    /\ UNCHANGED <<rdrVars, wtrVars, concVars, fltVars, enabled, mw, writerPool, started, rq, hcw, rw>>

\* the "if m.dumpResponse != nil" block before next.ServeHTTP
HandleWrapWriter ==
    /\ pc = "wrap"
    /\ IF mw.dumpResponse
       THEN \E inst \in PoolGet(writerPool, newCachedWriter(mw.dumpedBodySize)) :
                /\ writerPool' = writerPool \ {inst}
                /\ hcw' = cachedWriter_Reset(inst, rq.id, rq.id, mw.responseFilters)
                /\ hs' = [hs EXCEPT !.hasCw = TRUE]
       ELSE UNCHANGED <<writerPool, hcw, hs>>
    /\ pc' = "handler"
    /\ UNCHANGED <<rdrVars, wtrVars, concVars, fltVars, enabled, mw, readerPool, started, rq, rqBody, hcr,
                   rw, calls>>

\* The wrapped handler. Its body Reads and its response calls touch disjoint
\* objects, so it is taken to read first and respond afterwards.
HandlerRead ==
    /\ pc = "handler"
    /\ ~hs.responding
    /\ \E plen \in 1..MaxBuf :
        IF hs.hasCr
        THEN \E o \in PrefixReader_Read(hcr, rqBody, plen) :
                /\ hcr' = o.cr
                /\ rqBody' = o.src
                /\ hs' = [hs EXCEPT !.got = @ \o o.bytes, !.readErr = o.err]
        ELSE \E o \in SourceRead(rqBody, plen) :
                /\ hcr' = hcr
                /\ rqBody' = o.src
                /\ hs' = [hs EXCEPT !.got = @ \o o.bytes, !.readErr = o.err]
    /\ UNCHANGED <<rdrVars, wtrVars, concVars, fltVars, enabled, mw, readerPool, writerPool, started, pc,
                   rq, hcw, rw, calls>>

\* w.Header().Set("Content-Type", ...)
HandlerSetHeader ==
    /\ pc = "handler"
    /\ \E ct \in ResponseContentTypes :
        /\ rw.header # ct
        /\ rw' = [rw EXCEPT !.header = ct]
    /\ hs' = [hs EXCEPT !.responding = TRUE]
    /\ UNCHANGED <<rdrVars, wtrVars, concVars, fltVars, enabled, mw, readerPool, writerPool, started, pc,
                   rq, rqBody, hcr, hcw, calls>>

\* w.WriteHeader(code)
HandlerWriteHeader ==
    /\ pc = "handler"
    /\ \E code \in StatusCodes :
        /\ IF hs.hasCw
           THEN LET o == cachedWriter_WriteHeader(hcw, rw, code)
                IN  hcw' = o.cw /\ rw' = o.w
           ELSE hcw' = hcw /\ rw' = ResponseWriter_WriteHeader(rw, code)
        /\ hs' = Committing(hs, rw, code)
    /\ UNCHANGED <<rdrVars, wtrVars, concVars, fltVars, enabled, mw, readerPool, writerPool, started, pc,
                   rq, rqBody, hcr, calls>>

\* w.Write(data)
HandlerWrite ==
    /\ pc = "handler"
    /\ \E n \in 1..MaxBuf :
        /\ Len(hs.emitted) + n <= MaxEmit
        /\ LET data == RespBytes(rq.id, Len(hs.emitted), n)
           IN  /\ IF hs.hasCw
                  THEN LET o == cachedWriter_Write(hcw, rq, rw, data)
                       IN  /\ hcw' = o.cw
                           /\ rw' = o.w
                           /\ calls' = Evaluated(calls, hcw, rw)
                  ELSE /\ hcw' = hcw
                       /\ rw' = ResponseWriter_Write(rw, data)
                       /\ calls' = calls
               /\ hs' = [Committing(hs, rw, StatusOK) EXCEPT
                             !.emitted = @ \o data]
    /\ UNCHANGED <<rdrVars, wtrVars, concVars, fltVars, enabled, mw, readerPool, writerPool, started, pc,
                   rq, rqBody, hcr>>

\* io.Copy(w, src) and the like, which use w's ReadFrom when it has one
HandlerReadFrom ==
    /\ pc = "handler"
    /\ hs.hasCw
    /\ \E n \in 0..MaxBuf :
        /\ Len(hs.emitted) + n <= MaxEmit
        /\ LET data == RespBytes(rq.id, Len(hs.emitted), n)
               o == cachedWriter_ReadFrom(hcw, rw,
                        [data |-> data, pos |-> 0, endErr |-> "EOF"])
           IN  /\ hcw' = o.cw
               /\ rw' = o.w
               /\ hs' = [hs EXCEPT !.responding = TRUE, !.emitted = @ \o data]
    /\ UNCHANGED <<rdrVars, wtrVars, concVars, fltVars, enabled, mw, readerPool, writerPool, started, pc,
                   rq, rqBody, hcr, calls>>

\* next.ServeHTTP returns; with the flag read false, so does Handle
HandlerReturn ==
    /\ pc = "handler"
    /\ pc' = IF hs.passed THEN "returned" ELSE "idle"
    /\ UNCHANGED <<rdrVars, wtrVars, concVars, fltVars, enabled, mw, readerPool, writerPool, started, rq,
                   rqBody, hcr, hcw, rw, hs, calls>>

\* the "if m.dumpResponse != nil" block after next.ServeHTTP, then the
\* deferred Puts as Handle returns
HandleDumpResponse ==
    /\ pc = "returned"
    /\ IF mw.dumpResponse
       THEN LET cw1 == cachedWriter_EnsureFilterPassed(hcw, rq, rw)
                respBody == cachedWriter_Prefix(cw1)
            IN  /\ calls' = [Evaluated(calls, hcw, rw) EXCEPT
                        !.resp = IF cw1.dumpResponse THEN @ + 1 ELSE @,
                        !.respBody = IF cw1.dumpResponse THEN Bytes(respBody) ELSE @,
                        !.respStatus = IF cw1.dumpResponse
                                       THEN cachedWriter_Status(cw1) ELSE @,
                        !.respHeader = IF cw1.dumpResponse THEN rw.header ELSE @]
                /\ writerPool' = writerPool \cup {cw1}
       ELSE UNCHANGED <<calls, writerPool>>
    /\ readerPool' = IF hs.hasCr THEN readerPool \cup {hcr} ELSE readerPool
    /\ hcr' = NoReader
    /\ hcw' = NoWriter
    /\ pc' = "idle"
    /\ UNCHANGED <<rdrVars, wtrVars, concVars, fltVars, enabled, mw, started, rq, rqBody, rw, hs>>

\* io.ReadAll(r.Body) into a buffer larger than the body, the source handing
\* over all it has at each Read: the body stream is Read until it reports an
\* error.
RECURSIVE ReadAll(_, _, _, _)
ReadAll(hasCr, c, s, got) ==
    LET plen == Len(s.data) + 1
        outs == IF hasCr THEN PrefixReader_Read(c, s, plen)
                ELSE {[cr |-> c, src |-> o.src, bytes |-> o.bytes, err |-> o.err] :
                        o \in SourceRead(s, plen)}
        o    == CHOOSE x \in outs : \A y \in outs :
                    /\ Len(y.bytes) <= Len(x.bytes)
                    /\ Len(y.bytes) = Len(x.bytes) => (x.err = "nil" \/ y.err # "nil")
    IN  IF o.err # "nil"
        THEN [cr |-> o.cr, src |-> o.src, got |-> got \o o.bytes, err |-> o.err]
        ELSE ReadAll(hasCr, o.cr, o.src, got \o o.bytes)

\* The test suite's handler, run to its return: ReadAll of the body, the
\* response headers, WriteHeader when the status is not 0, one Write when the
\* body is not empty.
HandlerServe ==
    /\ pc = "handler"
    /\ \E ct \in {<<>>} \cup ResponseContentTypes,
          respStatus \in {0} \cup StatusCodes,
          n \in 0..MaxEmit :
        LET ra   == ReadAll(hs.hasCr, hcr, rqBody, <<>>)
            rw1  == [rw EXCEPT !.header = ct]
            wh   == IF respStatus = 0 THEN [cw |-> hcw, w |-> rw1]
                    ELSE IF hs.hasCw THEN cachedWriter_WriteHeader(hcw, rw1, respStatus)
                    ELSE [cw |-> hcw, w |-> ResponseWriter_WriteHeader(rw1, respStatus)]
            data == RespBytes(rq.id, 0, n)
            wr   == IF n = 0 THEN wh
                    ELSE IF hs.hasCw
                    THEN LET o == cachedWriter_Write(wh.cw, rq, wh.w, data)
                         IN  [cw |-> o.cw, w |-> o.w]
                    ELSE [cw |-> wh.cw, w |-> ResponseWriter_Write(wh.w, data)]
        IN  /\ hcr' = ra.cr
            /\ rqBody' = ra.src
            /\ hcw' = wr.cw
            /\ rw' = wr.w
            /\ hs' = [hs EXCEPT !.responding = TRUE, !.got = ra.got,
                                !.readErr = ra.err, !.emitted = data]
            /\ calls' = IF n > 0 /\ hs.hasCw THEN Evaluated(calls, wh.cw, wh.w)
                        ELSE calls
    /\ pc' = IF hs.passed THEN "returned" ELSE "idle"
    /\ UNCHANGED <<rdrVars, wtrVars, concVars, fltVars, enabled, mw, readerPool, writerPool, started,
                   rq>>

Next ==
    \/ SetEnabled
    \/ HandleFirst
    \/ HandleDumpRequest
    \/ HandleWrapWriter
    \/ HandlerRead
    \/ HandlerSetHeader
    \/ HandlerWriteHeader
    \/ HandlerWrite
    \/ HandlerReadFrom
    \/ HandlerReturn
    \/ HandleDumpResponse

\* SetEnabled called between two exchanges
SetEnabledBetween ==
    /\ pc = "idle"
    /\ SetEnabled

NextSeq ==
    \/ SetEnabledBetween
    \/ HandleEnter
    \/ HandleDumpRequest
    \/ HandleWrapWriter
    \/ HandlerServe
    \/ HandleDumpResponse

\* ============================================================== SpecConc
\* Handle calls on MaxConc goroutines at once. A pooled reader or wrapper is a
\* place in heap (its identity); pools hold identities.
Slots == 1..MaxConc

\* pc: where the goroutine's Handle call stands ("idle": it runs none); id: the
\* number of that call (0: none yet); passed: what its entry check read;
\* flipped: the flag differed from that at one of its later steps; cr, cw: the
\* reader and wrapper it holds (Nil: none); w: its response sink; got, emitted:
\* what its handler read and wrote; req, resp, reqBody, respBody: its callback
\* invocations and their bodies.
NoExchange ==
    [pc |-> "idle", id |-> 0, passed |-> FALSE, flipped |-> FALSE,
     rq |-> NoRequest, body |-> NoSource, cr |-> Nil, cw |-> Nil,
     w |-> NewResponseWriter, got |-> <<>>, emitted |-> <<>>,
     req |-> 0, resp |-> 0, reqBody |-> NoBytes, respBody |-> NoBytes]

NoExchanges == [s \in Slots |-> NoExchange]

\* a []byte handed to a callback: the instance whose buffer it is a slice of
\* (Nil: a nil slice) and the bytes it showed when the callback was called
NoSlice == [inst |-> Nil, bytes |-> <<>>]

\* lent: the bodies the callbacks of the first Handle call were given
NoHeap ==
    [readers |-> <<>>, writers |-> <<>>,
     lent |-> [req |-> NoSlice, resp |-> NoSlice]]

NoPools == [readers |-> {}, writers |-> {}]

\* Handle calls begun so far
Begun ==
    LET ids == {cx[s].id : s \in Slots}
    IN  CHOOSE m \in ids : \A k \in ids : k <= m

\* the exchange record after one more of its steps, taken with the flag as it
\* is now
Stepped(e) == [e EXCEPT !.flipped = @ \/ enabled # e.passed]

\* Get that leaves the instance in the pool
Mut_ConcGet_LeavesPooled(pool, made) ==
    IF pool = {} THEN {[id |-> made + 1, rest |-> pool]}
    ELSE {[id |-> i, rest |-> pool] : i \in pool}

\* sync.Pool.Get with made instances in being: a pooled instance, which
\* leaves the pool, or the pool's New() when it is empty
ConcGet(pool, made) ==
    IF pool = {} THEN {[id |-> made + 1, rest |-> pool]}
    ELSE {[id |-> i, rest |-> pool \ {i}] : i \in pool}

\* the instance with identity i, New() making it if it is not there yet
At(insts, i, new) == IF i > Len(insts) THEN new ELSE insts[i]

\* the instances with the one of identity i now being inst
Store(insts, i, inst) ==
    IF i > Len(insts) THEN Append(insts, inst) ELSE [insts EXCEPT ![i] = inst]

\* Handle is called on goroutine s with a request carrying a JSON body of
\* MaxBody bytes, and reads the flag. Goroutines are alike, so they make their
\* first calls in the order of their numbers.
ConcEnter(s) ==
    /\ cx[s].pc = "idle"
    /\ Begun < MaxStarts
    /\ \A t \in Slots : t < s => cx[t].id # 0
    /\ \E path \in Paths :
        cx' = [cx EXCEPT ![s] =
                [NoExchange EXCEPT
                    !.pc = IF enabled THEN "request" ELSE "handler",
                    !.id = Begun + 1,
                    !.passed = enabled,
                    !.rq = [id |-> Begun + 1, path |-> path,
                            header |-> <<"application/json">>],
                    !.body = [data |-> ReqBytes(Begun + 1, MaxBody), pos |-> 0,
                              endErr |-> "EOF"]]]
    /\ UNCHANGED <<rdrVars, wtrVars, fltVars, mwVars, heap, pools>>

ConcDumpRequest(s) ==
    /\ cx[s].pc = "request"
    /\ LET e == cx[s]
           d == needDumpRequest(mw, e.rq)
       IN  IF d.dump /\ d.body
           THEN \E g \in ConcGet(pools.readers, Len(heap.readers)) :
                    LET inst == At(heap.readers, g.id, NewPrefixReader(mw.dumpedBodySize))
                        o    == PrefixReader_Reset(inst, e.id, e.body)
                    IN  /\ heap' = [heap EXCEPT
                                !.readers = Store(@, g.id, o.cr),
                                !.lent.req = IF e.id = 1
                                             THEN [inst |-> g.id,
                                                   bytes |-> PrefixReader_Prefix(o.cr)]
                                             ELSE @]
                        /\ pools' = [pools EXCEPT !.readers = g.rest]
                        /\ cx' = [cx EXCEPT ![s] =
                                [Stepped(e) EXCEPT
                                    !.pc = "wrap", !.cr = g.id, !.body = o.src,
                                    !.req = @ + 1,
                                    !.reqBody = Bytes(PrefixReader_Prefix(o.cr))]]
           ELSE /\ cx' = [cx EXCEPT ![s] =
                        [Stepped(e) EXCEPT !.pc = "wrap",
                                           !.req = IF d.dump THEN @ + 1 ELSE @]]
                /\ UNCHANGED <<heap, pools>>
    /\ UNCHANGED <<rdrVars, wtrVars, fltVars, mwVars>>

ConcWrapWriter(s) ==
    /\ cx[s].pc = "wrap"
    /\ LET e == cx[s]
       IN  IF mw.dumpResponse
           THEN \E g \in ConcGet(pools.writers, Len(heap.writers)) :
                    LET inst == At(heap.writers, g.id, newCachedWriter(mw.dumpedBodySize))
                        cw1  == cachedWriter_Reset(inst, e.id, e.id, mw.responseFilters)
                    IN  /\ heap' = [heap EXCEPT !.writers = Store(@, g.id, cw1)]
                        /\ pools' = [pools EXCEPT !.writers = g.rest]
                        /\ cx' = [cx EXCEPT ![s] =
                                [Stepped(e) EXCEPT !.pc = "handler", !.cw = g.id]]
           ELSE /\ cx' = [cx EXCEPT ![s] = [Stepped(e) EXCEPT !.pc = "handler"]]
                /\ UNCHANGED <<heap, pools>>
    /\ UNCHANGED <<rdrVars, wtrVars, fltVars, mwVars>>

\* the test suite's handler, run to its return on goroutine s: it reads the
\* body and writes MaxEmit bytes, with or without a Content-Type
ConcServe(s) ==
    /\ cx[s].pc = "handler"
    /\ \E ct \in {<<>>} \cup ResponseContentTypes, n \in {MaxEmit} :
        LET e     == cx[s]
            hasCr == e.cr # Nil
            hasCw == e.cw # Nil
            ra    == ReadAll(hasCr, IF hasCr THEN heap.readers[e.cr] ELSE NoReader,
                             e.body, <<>>)
            w1    == [e.w EXCEPT !.header = ct]
            data  == RespBytes(e.id, 0, n)
            wr    == IF n = 0
                     THEN [cw |-> IF hasCw THEN heap.writers[e.cw] ELSE NoWriter,
                           w |-> w1]
                     ELSE IF hasCw
                     THEN LET o == cachedWriter_Write(heap.writers[e.cw], e.rq, w1, data)
                          IN  [cw |-> o.cw, w |-> o.w]
                     ELSE [cw |-> NoWriter, w |-> ResponseWriter_Write(w1, data)]
        IN  /\ heap' = [readers |-> IF hasCr THEN Store(heap.readers, e.cr, ra.cr)
                                    ELSE heap.readers,
                        writers |-> IF hasCw THEN Store(heap.writers, e.cw, wr.cw)
                                    ELSE heap.writers,
                        lent |-> heap.lent]
            /\ cx' = [cx EXCEPT ![s] =
                    [Stepped(e) EXCEPT
                        !.pc = IF e.passed THEN "returned" ELSE "idle",
                        !.body = ra.src, !.w = wr.w, !.got = ra.got,
                        !.emitted = data]]
    /\ UNCHANGED <<rdrVars, wtrVars, fltVars, mwVars, pools>>

\* the response side that asks the flag again
Mut_dumpsResponse_RereadsFlag(e) == mw.dumpResponse /\ enabled

\* "if m.dumpResponse != nil" after next.ServeHTTP, for exchange e
dumpsResponse(e) == mw.dumpResponse

\* the block after next.ServeHTTP and the deferred Puts, on goroutine s
ConcFinish(s) ==
    /\ cx[s].pc = "returned"
    /\ LET e   == cx[s]
           cw1 == cachedWriter_EnsureFilterPassed(heap.writers[e.cw], e.rq, e.w)
       IN  /\ IF dumpsResponse(e)
              THEN /\ heap' = [heap EXCEPT
                                !.writers = Store(@, e.cw, cw1),
                                !.lent.resp = IF e.id = 1 /\ cw1.dumpResponse
                                              THEN [inst |-> e.cw,
                                                    bytes |-> cachedWriter_Prefix(cw1)]
                                              ELSE @]
                   /\ cx' = [cx EXCEPT ![s] =
                        [Stepped(e) EXCEPT
                            !.pc = "idle", !.cr = Nil, !.cw = Nil,
                            !.resp = IF cw1.dumpResponse THEN @ + 1 ELSE @,
                            !.respBody = IF cw1.dumpResponse
                                         THEN Bytes(cachedWriter_Prefix(cw1)) ELSE @]]
              ELSE /\ heap' = heap
                   /\ cx' = [cx EXCEPT ![s] =
                        [Stepped(e) EXCEPT !.pc = "idle", !.cr = Nil, !.cw = Nil]]
           /\ pools' = [readers |-> IF e.cr # Nil THEN pools.readers \cup {e.cr}
                                    ELSE pools.readers,
                        writers |-> IF e.cw # Nil THEN pools.writers \cup {e.cw}
                                    ELSE pools.writers]
    /\ UNCHANGED <<rdrVars, wtrVars, fltVars, mwVars>>

ConcNext ==
    \/ SetEnabled
    \/ \E s \in Slots : ConcEnter(s)
    \/ \E s \in Slots : ConcDumpRequest(s)
    \/ \E s \in Slots : ConcWrapWriter(s)
    \/ \E s \in Slots : ConcServe(s)
    \/ \E s \in Slots : ConcFinish(s)

\* ============================================================ SpecFilter
\* A Middleware whose chains grow option by option, as NewMiddleware's loop
\* applies them, and filterPassed and cachedWriter.filtered evaluated on it.
\* n: evaluations so far; r, headers, status, requestFilters, responseFilters:
\* what the latest one was given; req, resp: what it returned for each side.
NoChainEval ==
    [n |-> 0, r |-> NoRequest, headers |-> <<>>, status |-> 0,
     requestFilters |-> <<>>, responseFilters |-> <<>>,
     req |-> [dump |-> FALSE, body |-> FALSE, calls |-> 0],
     resp |-> [dump |-> FALSE, body |-> FALSE, calls |-> 0]]

\* the options that add filters: path filters, and a caller's own predicates
\* with each of the four answers
FilterOptions ==
    {WithPathFilter(<<SomePath>>), WithRequestPathFilter(<<SomePath>>),
     WithResponsePathFilter(<<SomePath>>)}
    \cup {WithRequestFilters(<<CustomFilter(d, b)>>) : d \in BOOLEAN, b \in BOOLEAN}
    \cup {WithResponseFilters(<<CustomFilter(d, b)>>) : d \in BOOLEAN, b \in BOOLEAN}

\* opt(m) in NewMiddleware's loop, which ends before any exchange
FltOption ==
    /\ chainEval.n = 0
    /\ \E o \in FilterOptions :
        /\ mw' = ApplyOption(mw, o)
        /\ Len(mw'.requestFilters) <= MaxChain
        /\ Len(mw'.responseFilters) <= MaxChain
    /\ UNCHANGED <<rdrVars, wtrVars, concVars, fltVars, enabled, readerPool,
                   writerPool, started, pc, rq, rqBody, hcr, hcw, rw, hs, calls>>

\* both chains evaluated on a request with one of the Content-Types reqTypes
\* and a response with one of respTypes
FltEvaluateOn(reqTypes, respTypes) ==
    /\ \E path \in Paths, header \in reqTypes, headers \in respTypes,
          status \in StatusCodes :
        LET r  == [id |-> 1, path |-> path, header |-> header]
            cw == cachedWriter_Reset(NoWriter, 1, 1, mw.responseFilters)
        IN  chainEval' =
                [n |-> IF chainEval.n < 1 THEN chainEval.n + 1 ELSE chainEval.n,
                 r |-> r, headers |-> headers, status |-> status,
                 requestFilters |-> mw.requestFilters,
                 responseFilters |-> mw.responseFilters,
                 req |-> filterPassed(r, mw.requestFilters),
                 resp |-> filtered(cw, r, headers, status)]
    /\ UNCHANGED <<rdrVars, wtrVars, concVars, mwVars>>

FltEvaluate ==
    FltEvaluateOn(RequestContentTypes, {<<>>} \cup ResponseContentTypes)

FltNext == FltOption \/ FltEvaluate

\* ============================================================= SpecTypes
\* A Middleware built with one option that adds a content-type filter over
\* the caller's own list, evaluated on exchanges of the listed type too.
\* a content type that DefaultDumpedContentTypes does not list
OtherContentType == <<"image/svg+xml">>

OwnTypesOptions ==
    {WithRequestFilters(<<FilterBodyByContentType(<<OtherContentType>>)>>),
     WithResponseFilters(<<FilterBodyByContentType(<<OtherContentType>>)>>)}

\* opt(m) for the one option NewMiddleware was given
TypesOption ==
    /\ chainEval.n = 0
    /\ mw = NewMiddleware(TRUE, TRUE, <<>>)
    /\ \E o \in OwnTypesOptions : mw' = ApplyOption(mw, o)
    /\ UNCHANGED <<rdrVars, wtrVars, concVars, fltVars, enabled, readerPool,
                   writerPool, started, pc, rq, rqBody, hcr, hcw, rw, hs, calls>>

TypesEvaluate ==
    FltEvaluateOn(RequestContentTypes \cup {OtherContentType},
                  {<<>>, OtherContentType} \cup ResponseContentTypes)

TypesNext == TypesOption \/ TypesEvaluate

\* ============================================================== SpecSink
\* The substituted response writer over a sink whose connection may break:
\* Handle wraps the sink, the handler has set its headers, and then it calls
\* Write. wtrObs holds what the handler fed and what the last Write returned.
Sinks ==
    {[NewResponseWriter EXCEPT !.header = ct, !.broken = b, !.left = k] :
        ct \in {<<>>} \cup ResponseContentTypes,
        b \in BOOLEAN, k \in 0..MaxAccept}

\* cw = m.writerPool.Get(); cw.Reset(w, r, m.responseFilters...); w = cw
SinkReset ==
    /\ mw.dumpResponse
    /\ \E path \in Paths, w \in Sinks :
        /\ w.broken \/ w.left = 0
        /\ rq' = [id |-> 1, path |-> path, header |-> <<>>]
        /\ rw' = w
        /\ hcw' = cachedWriter_Reset(
                    IF hcw.w = Nil THEN newCachedWriter(mw.dumpedBodySize) ELSE hcw,
                    1, 1, mw.responseFilters)
        /\ wtrObs' = NoWrites
    /\ UNCHANGED <<rdrVars, concVars, fltVars, wtr, wtrSink, enabled, mw,
                   readerPool, writerPool, started, pc, rqBody, hcr, hs, calls>>

\* w.Write(data) in the handler
SinkWrite ==
    /\ hcw.w # Nil
    /\ \E data \in SeqsUpTo(Byte, MaxBuf) :
        /\ Len(wtrObs.fed) + Len(data) <= MaxFed
        /\ LET o == cachedWriter_Write(hcw, rq, rw, data)
           IN  /\ hcw' = o.cw
               /\ rw' = o.w
               /\ wtrObs' = [fed |-> wtrObs.fed \o data, op |-> "Write",
                             data |-> data, end |-> "EOF", n |-> o.n,
                             err |-> o.err,
                             before |-> hcw.PrefixWriter.cached]
    /\ UNCHANGED <<rdrVars, concVars, fltVars, wtr, wtrSink, enabled, mw,
                   readerPool, writerPool, started, pc, rq, rqBody, hcr, hs, calls>>

SinkNext == SinkReset \/ SinkWrite

\* ------------------------------------------------------- specifications
InitReader ==
    /\ rdr \in {NewPrefixReader(p) : p \in 1..MaxPrefixLen}
    /\ rdrSrc = NoSource
    /\ rdrObs = NoReads
    /\ wtr = NewPrefixWriter(Nil, 1)
    /\ wtrSink = NewResponseWriter
    /\ wtrObs = NoWrites
    /\ enabled = TRUE
    /\ mw = NewMiddleware(FALSE, FALSE, <<>>)
    /\ readerPool = {}
    /\ writerPool = {}
    /\ started = <<>>
    /\ pc = "idle"
    /\ rq = NoRequest
    /\ rqBody = NoSource
    /\ hcr = NoReader
    /\ hcw = NoWriter
    /\ rw = NewResponseWriter
    /\ hs = NoHandler
    /\ calls = NoCalls
    /\ cx = NoExchanges
    /\ heap = NoHeap
    /\ pools = NoPools
    /\ chainEval = NoChainEval

InitWriter ==
    /\ wtr \in {NewPrefixWriter(Nil, p) : p \in 1..MaxPrefixLen}
    /\ wtrSink = NewResponseWriter
    /\ wtrObs = NoWrites
    /\ rdr = NewPrefixReader(1)
    /\ rdrSrc = NoSource
    /\ rdrObs = NoReads
    /\ enabled = TRUE
    /\ mw = NewMiddleware(FALSE, FALSE, <<>>)
    /\ readerPool = {}
    /\ writerPool = {}
    /\ started = <<>>
    /\ pc = "idle"
    /\ rq = NoRequest
    /\ rqBody = NoSource
    /\ hcr = NoReader
    /\ hcw = NoWriter
    /\ rw = NewResponseWriter
    /\ hs = NoHandler
    /\ calls = NoCalls
    /\ cx = NoExchanges
    /\ heap = NoHeap
    /\ pools = NoPools
    /\ chainEval = NoChainEval

\* NewMiddleware as one of Configs calls it; the flag starts true and the
\* pools start empty.
Init ==
    /\ enabled = TRUE
    /\ mw \in {NewMiddleware(c.dq, c.dp, c.opts) : c \in Configs}
    /\ readerPool = {}
    /\ writerPool = {}
    /\ started = <<>>
    /\ pc = "idle"
    /\ rq = NoRequest
    /\ rqBody = NoSource
    /\ hcr = NoReader
    /\ hcw = NoWriter
    /\ rw = NewResponseWriter
    /\ hs = NoHandler
    /\ calls = NoCalls
    /\ cx = NoExchanges
    /\ heap = NoHeap
    /\ pools = NoPools
    /\ chainEval = NoChainEval
    /\ rdr = NewPrefixReader(1)
    /\ rdrSrc = NoSource
    /\ rdrObs = NoReads
    /\ wtr = NewPrefixWriter(Nil, 1)
    /\ wtrSink = NewResponseWriter
    /\ wtrObs = NoWrites

\* NewMiddleware with both callbacks and no option applied yet
InitFilter ==
    /\ mw = NewMiddleware(TRUE, TRUE, <<>>)
    /\ chainEval = NoChainEval
    /\ enabled = TRUE
    /\ readerPool = {}
    /\ writerPool = {}
    /\ started = <<>>
    /\ pc = "idle"
    /\ rq = NoRequest
    /\ rqBody = NoSource
    /\ hcr = NoReader
    /\ hcw = NoWriter
    /\ rw = NewResponseWriter
    /\ hs = NoHandler
    /\ calls = NoCalls
    /\ cx = NoExchanges
    /\ heap = NoHeap
    /\ pools = NoPools
    /\ rdr = NewPrefixReader(1)
    /\ rdrSrc = NoSource
    /\ rdrObs = NoReads
    /\ wtr = NewPrefixWriter(Nil, 1)
    /\ wtrSink = NewResponseWriter
    /\ wtrObs = NoWrites

Spec == Init /\ [][Next]_vars

SpecSeq == Init /\ [][NextSeq]_vars

SpecConc == Init /\ [][ConcNext]_vars

SpecFilter == InitFilter /\ [][FltNext]_vars

SpecSink == Init /\ [][SinkNext]_vars

SpecTypes == InitFilter /\ [][TypesNext]_vars

SpecReader == InitReader /\ [][RdrNext]_vars

SpecWriter == InitWriter /\ [][WtrNext]_vars

\* ================================================================ claims

\* C1: after Reset onto a source that ends cleanly, and with Reads only, the
\* bytes the Reads return are always the leading bytes of the source in
\* order, and up to and including the first Read that reports end-of-data
\* they are the whole source, whatever the buffer sizes and however the
\* source chunks its own Reads.
C1_ReadsDeliverWholeSource ==
    (rdr.r # Nil /\ rdrObs.writeTos = 0 /\ rdrSrc.endErr = "EOF") =>
        /\ rdrObs.got = Take(rdrSrc.data, Len(rdrObs.got))
        /\ rdrObs.ended => /\ rdrObs.gotAtEnd = rdrSrc.data
                           /\ rdrObs.got = rdrSrc.data

\* a source longer than the capture buffer was read to its end
C1_Witness ==
    /\ rdr.r # Nil /\ rdrObs.writeTos = 0 /\ rdrSrc.endErr = "EOF"
    /\ Len(rdrSrc.data) > Len(rdr.cache)
    /\ rdrObs.ended
    /\ rdrObs.gotAtEnd = rdrSrc.data

\* C2: at any time between a Reset and the next, Prefix() is the first
\* min(P, L) bytes of the source, whatever Read and WriteTo calls were made.
C2_PrefixIsStable ==
    rdr.r # Nil =>
        PrefixReader_Prefix(rdr) = Take(rdrSrc.data, Len(rdr.cache))

\* both a Read and a WriteTo were made on a source longer than the buffer
C2_Witness ==
    /\ rdr.r # Nil
    /\ Len(rdrSrc.data) > Len(rdr.cache)
    /\ rdrObs.writeTos > 0
    /\ Len(rdrObs.got) > 0
    /\ PrefixReader_Prefix(rdr) = Take(rdrSrc.data, Len(rdr.cache))

\* C3: the sink holds exactly the data written or transferred since Reset, in
\* call order and unchanged.
C3_SinkGetsEverything ==
    wtr.w # Nil => wtrSink.body = wtrObs.fed

\* a ReadFrom that began with the capture buffer already full delivered bytes
C3_Witness ==
    /\ wtr.w # Nil
    /\ wtrObs.op = "ReadFrom"
    /\ wtrObs.before = Len(wtr.cache)
    /\ wtrObs.n > 0
    /\ wtrSink.body = wtrObs.fed

ReqVetoed ==
    \E i \in 1..Len(mw.requestFilters) : ~RequestFilter(mw.requestFilters[i], rq).dump

\* The request-side pipeline yields capture=true.
ReqCapture == mw.dumpRequest /\ ~ReqVetoed

\* No request-side predicate suppresses the body.
ReqCaptureBody ==
    \A i \in 1..Len(mw.requestFilters) : RequestFilter(mw.requestFilters[i], rq).body

\* Some response-side predicate vetoes the capture, on these headers and status.
RespVetoed(headers, status) ==
    \E i \in 1..Len(mw.responseFilters) :
        ~ResponseFilter(mw.responseFilters[i], rq, headers, status).dump

\* No response-side predicate suppresses the body, on these headers and status.
RespCaptureBody(headers, status) ==
    \A i \in 1..Len(mw.responseFilters) :
        ResponseFilter(mw.responseFilters[i], rq, headers, status).body

\* The combined path-exclusion option is configured and the request's path
\* matches one of its patterns.
PathExcluded ==
    \E i \in 1..Len(mw.requestFilters), j \in 1..Len(mw.responseFilters) :
        /\ mw.requestFilters[i].kind = "path"
        /\ mw.responseFilters[j] = mw.requestFilters[i]
        /\ \E k \in 1..Len(mw.requestFilters[i].regexps) :
                MatchString(mw.requestFilters[i].regexps[k], rq.path)

\* An exchange has begun and its entry check read the flag as true.
EnabledExchange == started # <<>> /\ hs.passed

\* C5: in an enabled exchange the request callback has not been invoked while
\* the request side is still being decided; from then on - before the wrapped
\* handler starts, while it runs and after it - it has been invoked exactly
\* once if a request callback is configured and no request-side predicate
\* vetoes, and never otherwise.
C5_RequestCallbackOnceBeforeHandler ==
    EnabledExchange =>
        /\ pc = "request" => calls.req = 0
        /\ pc # "request" => calls.req = IF ReqCapture THEN 1 ELSE 0

\* the handler is about to start and the request callback has run once
C5_Witness ==
    /\ EnabledExchange
    /\ pc = "handler"
    /\ hs.readErr = "none" /\ ~hs.responding
    /\ ReqCapture
    /\ calls.req = 1

\* C6: in an enabled exchange the response callback has not been invoked
\* until the wrapped handler has returned; when Handle has returned it has
\* been invoked exactly once if a response callback is configured and no
\* response-side predicate vetoed on the headers and status the pipeline was
\* evaluated on, and never otherwise.
C6_ResponseCallbackOnceAfterHandler ==
    EnabledExchange =>
        /\ pc # "idle" => calls.resp = 0
        /\ pc = "idle" =>
                calls.resp = IF mw.dumpResponse
                                /\ ~RespVetoed(calls.evalHeader, calls.evalStatus)
                             THEN 1 ELSE 0

\* Handle has returned after a handler that emitted a body, and the response
\* callback has run once
C6_Witness ==
    /\ EnabledExchange
    /\ pc = "idle"
    /\ hs.emitted # <<>>
    /\ calls.evals = 1
    /\ calls.resp = 1

\* C7: a veto of any request-side predicate means the request callback is not
\* invoked, a veto of any response-side predicate means the response callback
\* is not invoked, and with the combined path-exclusion option a request whose
\* path matches a pattern triggers neither callback.
C7_VetoSilencesCallback ==
    started # <<>> =>
        /\ ReqVetoed => calls.req = 0
        /\ RespVetoed(calls.evalHeader, calls.evalStatus) => calls.resp = 0
        /\ PathExcluded => calls.req = 0 /\ calls.resp = 0

\* an enabled exchange with a JSON body on an excluded path has run to its
\* end, the handler having read the body and emitted a response
C7_Witness ==
    /\ EnabledExchange
    /\ pc = "idle"
    /\ PathExcluded
    /\ rq.header # <<>>
    /\ hs.got # <<>>
    /\ hs.emitted # <<>>
    /\ rw.header # <<>>
    /\ calls.req = 0 /\ calls.resp = 0

\* C8: when the response callback of an enabled exchange is invoked, its body
\* is the first min(P, T) bytes of the T bytes the handler emitted if no
\* response-side predicate suppressed the body, and is empty if one did,
\* whether the handler emitted by Write or by ReadFrom.
C8_ResponseBodyAsDecided ==
    (EnabledExchange /\ pc = "idle" /\ calls.resp = 1) =>
        calls.respBody =
            Bytes(IF RespCaptureBody(calls.evalHeader, calls.evalStatus)
                  THEN Take(hs.emitted, mw.dumpedBodySize)
                  ELSE <<>>)

\* C9: when the request side of an enabled exchange yields capture, the body
\* handed to the request callback is the first min(P, L) bytes of the request
\* body if no request-side predicate suppresses the body; if one does, the
\* body is nil, the request keeps its original body stream, and nothing is
\* read from that stream before the handler's own first Read.
C9_RequestBodyAsDecided ==
    (EnabledExchange /\ pc # "request" /\ ReqCapture) =>
        IF ReqCaptureBody
        THEN /\ calls.reqBody = Bytes(Take(rqBody.data, mw.dumpedBodySize))
             /\ hs.hasCr
        ELSE /\ calls.reqBody = NoBytes
             /\ ~hs.hasCr
             /\ hcr = NoReader
             /\ hs.readErr = "none" => rqBody.pos = 0

\* the callback got the first P bytes of a longer body, which the handler has
\* then read to its end
C9_Witness ==
    /\ EnabledExchange
    /\ pc = "handler"
    /\ ReqCapture /\ ReqCaptureBody
    /\ Len(rqBody.data) > mw.dumpedBodySize
    /\ hs.readErr = "EOF"
    /\ hs.got = rqBody.data
    /\ calls.reqBody = Bytes(Take(rqBody.data, mw.dumpedBodySize))

\* The status a response ends up with: what the sink committed, 200 when
\* the handler committed nothing.
FinalStatus == IF rw.status = 0 THEN StatusOK ELSE rw.status

\* An exchange that began with the flag false: no callback, no evaluation of
\* the response pipeline, no pooled reader or wrapper in its hands, and when it
\* is over its handler has read the whole body and the sink holds all it
\* emitted.
BypassedOutcome ==
    (started # <<>> /\ ~hs.passed) =>
        /\ calls.req = 0 /\ calls.resp = 0 /\ calls.evals = 0
        /\ ~hs.hasCr /\ ~hs.hasCw
        /\ hcr = NoReader /\ hcw = NoWriter
        /\ pc \in {"handler", "idle"}
        /\ pc = "idle" => hs.got = rqBody.data /\ rw.body = hs.emitted

\* An exchange that began with the flag true and is over: the callbacks and
\* their arguments are those its own request, response and the configuration
\* call for, whatever exchanges and flag changes came before it.
DumpedOutcome ==
    (EnabledExchange /\ pc = "idle") =>
        /\ calls.req = IF ReqCapture THEN 1 ELSE 0
        /\ calls.reqBody = IF ReqCapture /\ ReqCaptureBody
                           THEN Bytes(Take(rqBody.data, mw.dumpedBodySize))
                           ELSE NoBytes
        /\ calls.resp = IF mw.dumpResponse /\ ~RespVetoed(rw.header, FinalStatus)
                        THEN 1 ELSE 0
        /\ calls.resp = 1 =>
                /\ calls.respBody =
                        Bytes(IF RespCaptureBody(rw.header, FinalStatus)
                              THEN Take(hs.emitted, mw.dumpedBodySize)
                              ELSE <<>>)
                /\ calls.respStatus = FinalStatus
                /\ calls.respHeader = rw.header
        /\ hs.got = rqBody.data
        /\ rw.body = hs.emitted

\* No step of an exchange that began with the flag false changes a pool.
BypassKeepsPools ==
    (started' # <<>> /\ ~hs'.passed) =>
        (readerPool' = readerPool /\ writerPool' = writerPool)

\* C10: over every sequence of SetEnabled calls and exchanges, an exchange that
\* starts with the flag false invokes no callback, hands the handler the
\* original body and sink, and leaves the pools alone; an exchange that starts
\* with the flag true dumps what its own inputs call for, also after the flag
\* was cleared and set again.
C10_FlagGatesExchanges ==
    /\ [](BypassedOutcome /\ DumpedOutcome)
    /\ [][BypassKeepsPools]_vars

\* a dumped exchange, then a bypassed one, then one that dumps both bodies
\* again with the pooled reader and wrapper
C10_Witness ==
    /\ started = <<TRUE, FALSE, TRUE>>
    /\ pc = "idle"
    /\ calls.req = 1 /\ calls.reqBody.bytes # <<>>
    /\ calls.resp = 1 /\ calls.respBody.bytes # <<>>
    /\ \E c \in readerPool : c.r = Len(started)
    /\ \E c \in writerPool : c.w = Len(started)

\* ------------------------------------------------ concurrent exchanges
\* The request-side pipeline yields capture=true for request r.
ReqCaptureOf(r) ==
    /\ mw.dumpRequest
    /\ \A i \in 1..Len(mw.requestFilters) : RequestFilter(mw.requestFilters[i], r).dump

\* The response-side pipeline yields capture=true for request r on these
\* headers and status.
RespCaptureOf(r, headers, status) ==
    /\ mw.dumpResponse
    /\ \A i \in 1..Len(mw.responseFilters) :
            ResponseFilter(mw.responseFilters[i], r, headers, status).dump

\* C11: whatever SetEnabled calls interleave with the Handle calls running on
\* the goroutines, a call whose entry check read false invokes no callback and
\* takes no pooled instance, and a call whose entry check read true invokes
\* the request callback once its request side is decided, and the response
\* callback by its return, exactly as its pipelines say.
C11_EntryCheckDecides ==
    \A s \in Slots :
        LET e == cx[s]
        IN  e.id # 0 =>
                IF e.passed
                THEN /\ e.pc # "request" =>
                            e.req = IF ReqCaptureOf(e.rq) THEN 1 ELSE 0
                     /\ e.pc = "idle" =>
                            e.resp = IF RespCaptureOf(e.rq, e.w.header, StatusOK)
                                     THEN 1 ELSE 0
                     /\ e.pc # "idle" => e.resp = 0
                ELSE /\ e.req = 0 /\ e.resp = 0
                     /\ e.cr = Nil /\ e.cw = Nil

\* one call read true, saw the flag false at a later step and made both
\* callbacks; another read false, saw the flag true when its handler ran and
\* made none
C11_Witness ==
    \E s, t \in Slots :
        /\ cx[s].passed /\ cx[s].flipped /\ cx[s].pc = "idle"
        /\ cx[s].req = 1 /\ cx[s].resp = 1
        /\ cx[t].id # 0 /\ ~cx[t].passed /\ cx[t].flipped /\ cx[t].pc = "idle"
        /\ cx[t].emitted # <<>>
        /\ cx[t].req = 0 /\ cx[t].resp = 0

\* ------------------------------------------------------- filter chains
\* What the chain whose predicates answer answers[1], answers[2], ... in
\* registration order is to yield: (false, false) after the first veto, with
\* no predicate called after it; else (true, AND of the body flags), with all
\* of them called.
ChainResult(answers) ==
    LET vetoes == {i \in 1..Len(answers) : ~answers[i].dump}
    IN  IF vetoes = {}
        THEN [dump |-> TRUE,
              body |-> \A i \in 1..Len(answers) : answers[i].body,
              calls |-> Len(answers)]
        ELSE [dump |-> FALSE, body |-> FALSE,
              calls |-> CHOOSE i \in vetoes : \A j \in vetoes : i <= j]

\* C12: for every chain built from the options and every request and response,
\* filterPassed and cachedWriter.filtered return (false, false) if a predicate
\* vetoes, calling none after the first that does, and otherwise (true, AND of
\* the body flags); capture=false never comes with captureBody=true.
C12_ChainYieldsFirstVetoOrAnd ==
    chainEval.n > 0 =>
        /\ chainEval.req =
                ChainResult([i \in 1..Len(chainEval.requestFilters) |->
                    RequestFilter(chainEval.requestFilters[i], chainEval.r)])
        /\ chainEval.resp =
                ChainResult([i \in 1..Len(chainEval.responseFilters) |->
                    ResponseFilter(chainEval.responseFilters[i], chainEval.r,
                                   chainEval.headers, chainEval.status)])
        /\ ~chainEval.req.dump => ~chainEval.req.body
        /\ ~chainEval.resp.dump => ~chainEval.resp.body

\* the request chain was stopped by a predicate answering (false, true) with
\* another registered after it, and the response chain, with no veto, had its
\* body flag cleared by one predicate
C12_Witness ==
    /\ chainEval.n > 0
    /\ Len(chainEval.requestFilters) = MaxChain
    /\ chainEval.requestFilters[2] = CustomFilter(FALSE, TRUE)
    /\ chainEval.req = [dump |-> FALSE, body |-> FALSE, calls |-> 2]
    /\ Len(chainEval.responseFilters) = MaxChain
    /\ chainEval.responseFilters[2] = CustomFilter(TRUE, FALSE)
    /\ chainEval.resp = [dump |-> TRUE, body |-> FALSE, calls |-> MaxChain]

\* C13: in an enabled exchange with a response callback, the response-side
\* chain is evaluated at most once while the handler runs and exactly once by
\* the time Handle returns, whatever WriteHeader, Write and ReadFrom calls the
\* handler makes; if the handler returns with nothing committed to the sink -
\* no status set, nothing written - the chain has not been evaluated when it
\* returns and is then evaluated with status 200.
C13_ChainEvaluatedOnce ==
    (EnabledExchange /\ mw.dumpResponse) =>
        /\ calls.evals <= 1
        /\ pc = "idle" => calls.evals = 1
        /\ (pc = "returned" /\ rw.status = 0) => calls.evals = 0
        /\ (pc = "idle" /\ rw.status = 0) => calls.evalStatus = StatusOK

\* Handle has returned after a handler that set a header and nothing else:
\* one evaluation, on status 200, and the response callback has run
C13_Witness ==
    /\ EnabledExchange /\ mw.dumpResponse
    /\ pc = "idle"
    /\ rw.status = 0 /\ rw.header # <<>> /\ hs.emitted = <<>>
    /\ calls.evals = 1 /\ calls.evalStatus = StatusOK
    /\ calls.resp = 1 /\ calls.respStatus = StatusOK

\* C14: the response-side chain is evaluated at the handler's first
\* WriteHeader or first Write, whichever comes first, on the status and the
\* headers of that moment: once the handler has made either call the chain
\* has been evaluated, and what it was evaluated on are the headers and the
\* status the sink had when that call was made.
C14_EvaluatedAtFirstStatusOrWrite ==
    (EnabledExchange /\ mw.dumpResponse /\ hs.hasCw /\ hs.committed) =>
        /\ calls.evals = 1
        /\ calls.evalStatus = hs.commitStatus
        /\ calls.evalHeader = hs.commitHeader

\* C15: when Reset recorded an end-of-data or error condition, a Read that
\* delivers cached bytes (it advances the replay cursor) returns a nil error,
\* whatever the size of the caller's buffer; the recorded condition comes
\* only from a Read that finds the cache exhausted.
C15_CachedBytesComeWithNilError ==
    [][(rdr.err # "nil" /\ rdr'.read > rdr.read) => rdrObs'.last = "nil"]_vars

\* C16: every Write through the substituted response writer, with body
\* capture on or off, returns to the handler the byte count and the error
\* that the underlying sink returned for that data, also when the sink
\* reports an error after accepting part of it.
C16_WriteReturnsSinkResult ==
    [][wtrObs'.op = "Write" =>
        LET res == ResponseWriter_WriteResult(rw, wtrObs'.data)
        IN  wtrObs'.n = res.n /\ wtrObs'.err = res.err]_vars

\* C17: after Reset on a source of L bytes and Reads that consumed k bytes
\* in all, the first WriteTo delivers to the destination bytes k..L-1 of the
\* source, in order, and returns the count L - k.
C17_WriteToDeliversTheRest ==
    [][(rdrObs.writeTos = 0 /\ rdrObs'.writeTos = 1) =>
        /\ rdrObs'.dst = Drop(rdrSrc.data, Len(rdrObs.got))
        /\ rdrObs'.wrote = Len(rdrSrc.data) - Len(rdrObs.got)]_vars

\* one WriteTo after Reads that consumed part of the cache: it delivered the
\* unreplayed cached bytes and then bytes the cache never held
C17_Witness ==
    /\ rdrObs.writeTos = 1
    /\ 0 < rdr.read /\ rdr.read < rdr.cached
    /\ rdrObs.wrote > rdr.cached - rdr.read
    /\ rdrObs.got \o rdrObs.dst = rdrSrc.data

\* C18: ReadFrom on a source of L >= 0 bytes that ends cleanly returns the
\* count L and a nil error, whatever was written since the last Reset.
C18_ReadFromReturnsLengthAndNil ==
    (wtrObs.op = "ReadFrom" /\ wtrObs.end = "EOF") =>
        wtrObs.n = Len(wtrObs.data) /\ wtrObs.err = "nil"

\* C19: however concurrently running exchanges interleave, a reader or a
\* wrapper checked out of its pool is held by one exchange only until that
\* exchange's Handle returns: no two exchanges hold the same instance, a held
\* instance is not in the pool for another Get, it stays bound to the source,
\* sink and request its holder Reset it onto, and the holder's handler reads
\* through it the holder's own body.
C19_CheckoutIsExclusive ==
    \A s \in Slots :
        LET e == cx[s]
        IN  /\ e.cr # Nil =>
                /\ \A t \in Slots \ {s} : cx[t].cr # e.cr
                /\ e.cr \notin pools.readers
                /\ heap.readers[e.cr].r = e.id
            /\ e.cw # Nil =>
                /\ \A t \in Slots \ {s} : cx[t].cw # e.cw
                /\ e.cw \notin pools.writers
                /\ heap.writers[e.cw].w = e.id
                /\ heap.writers[e.cw].request = e.id
            /\ (e.pc = "returned" /\ e.cr # Nil) =>
                /\ e.got = e.body.data
                /\ e.reqBody = Bytes(Take(e.got, mw.dumpedBodySize))
            /\ (e.pc = "returned" /\ e.cw # Nil /\ heap.writers[e.cw].dumpBody) =>
                cachedWriter_Prefix(heap.writers[e.cw])
                    = Take(e.emitted, mw.dumpedBodySize)

\* two exchanges run at once, each holding a reader and a wrapper, one of
\* them on instances that an exchange before it put back
C19_Witness ==
    \E s \in Slots, t \in Slots :
        /\ s # t
        /\ cx[s].cr # Nil /\ cx[s].cw # Nil /\ cx[t].cr # Nil /\ cx[t].cw # Nil
        /\ cx[s].id > MaxConc
        /\ cx[s].cr <= Len(heap.readers) /\ Len(heap.readers) = MaxConc
        /\ cx[s].pc = "returned" /\ cx[t].pc = "returned"

\* C20: the reader and the wrapper an exchange has put back into the pools
\* hold no reference to that exchange: no request body source, no response
\* sink, no request and no filter list.
C20_PooledHoldNoReferences ==
    /\ \A c \in readerPool : c.r = Nil
    /\ \A cw \in writerPool :
        /\ cw.w = Nil /\ cw.PrefixWriter.w = Nil
        /\ cw.request = Nil
        /\ cw.filters = <<>>

\* what an exchange can observe of a wrapper: all its fields but the bytes of
\* the buffer beyond the captured length, which Prefix() does not show
SeenOfWriter(cw) ==
    [prefix |-> cachedWriter_Prefix(cw), capacity |-> Len(cw.PrefixWriter.cache),
     sink |-> cw.PrefixWriter.w, w |-> cw.w, statusCode |-> cw.statusCode,
     request |-> cw.request, written |-> cw.written, dumpBody |-> cw.dumpBody,
     dumpResponse |-> cw.dumpResponse, filters |-> cw.filters]

\* what an exchange can observe of a reader
SeenOfReader(c) ==
    [prefix |-> PrefixReader_Prefix(c), capacity |-> Len(c.cache), r |-> c.r,
     read |-> c.read, cached |-> c.cached, err |-> c.err]

\* a wrapper made for this exchange alone, Reset by Handle
FreshWriter ==
    cachedWriter_Reset(newCachedWriter(mw.dumpedBodySize), rq.id, rq.id,
                       mw.responseFilters)

\* that wrapper after the handler's WriteHeader and Write, as far as it made
\* them
FreshWriterServed ==
    LET sink == [NewResponseWriter EXCEPT !.header = rw.header]
        wh   == IF rw.status = 0
                THEN [cw |-> FreshWriter, w |-> sink]
                ELSE cachedWriter_WriteHeader(FreshWriter, sink, rw.status)
    IN  IF hs.emitted = <<>> THEN wh.cw
        ELSE cachedWriter_Write(wh.cw, rq, wh.w, hs.emitted).cw

\* a reader made for this exchange alone, Reset by Handle onto the body
FreshReader ==
    PrefixReader_Reset(NewPrefixReader(mw.dumpedBodySize), rq.id,
                       [rqBody EXCEPT !.pos = 0]).cr

\* that reader after the handler has read the body to its end
FreshReaderServed ==
    ReadAll(TRUE, FreshReader,
            PrefixReader_Reset(NewPrefixReader(mw.dumpedBodySize), rq.id,
                               [rqBody EXCEPT !.pos = 0]).src, <<>>).cr

\* C21: over every sequence of exchanges, what an exchange sees of the reader
\* and the wrapper it took from the pools - captured prefix, replay cursor,
\* stored error, status code, the written latch, the dump and body flags - is
\* what it would see of instances made for it alone, both when Handle has
\* Reset them and when its handler has returned; the buffer capacity is the
\* one thing carried over.
C21_ReuseShowsOwnExchangeOnly ==
    /\ (hs.hasCr /\ pc \in {"wrap", "handler"}) =>
            SeenOfReader(hcr) = SeenOfReader(FreshReader)
    /\ (hs.hasCr /\ pc = "returned") =>
            SeenOfReader(hcr) = SeenOfReader(FreshReaderServed)
    /\ (hs.hasCw /\ pc = "handler") =>
            SeenOfWriter(hcw) = SeenOfWriter(FreshWriter)
    /\ (hs.hasCw /\ pc = "returned") =>
            SeenOfWriter(hcw) = SeenOfWriter(FreshWriterServed)

\* a later exchange whose handler has returned, on a reader and a wrapper
\* whose buffers still hold bytes of an earlier exchange that this one did
\* not overwrite
C21_Witness ==
    /\ Len(started) > 1
    /\ pc = "returned"
    /\ hs.hasCr /\ hs.hasCw
    /\ hcr.cached < Len(hcr.cache) /\ hcr.cache[Len(hcr.cache)] # 0
    /\ hcw.PrefixWriter.cached < Len(hcw.PrefixWriter.cache)
    /\ hcw.PrefixWriter.cache[Len(hcw.PrefixWriter.cache)] # 0
    /\ hcw.dumpBody /\ hs.emitted # <<>>

\* C22: a Middleware built with the one option
\* WithRequestFilters(FilterRequestBodyByContentType(list)), or
\* WithResponseFilters(FilterResponseBodyByContentType(list)), where list
\* holds a content type that DefaultDumpedContentTypes does not, captures the
\* body of a request, or response, of that content type.
C22_OwnContentTypesAreCaptured ==
    LET list == <<OtherContentType>>
        mq   == NewMiddleware(TRUE, TRUE,
                    <<WithRequestFilters(<<FilterBodyByContentType(list)>>)>>)
        mp   == NewMiddleware(TRUE, TRUE,
                    <<WithResponseFilters(<<FilterBodyByContentType(list)>>)>>)
    IN  chainEval.n > 0 =>
            /\ (chainEval.requestFilters = mq.requestFilters
                    /\ chainEval.r.header = OtherContentType) =>
                        chainEval.req.dump /\ chainEval.req.body
            /\ (chainEval.responseFilters = mp.responseFilters
                    /\ chainEval.headers = OtherContentType) =>
                        chainEval.resp.dump /\ chainEval.resp.body

\* C23: in every state that Reset, Read, WriteTo, Prefix and Close calls can
\* bring a PrefixReader of capacity prefixLen to, 0 <= read <= cached <=
\* prefixLen.
C23_CursorWithinCache ==
    /\ 0 <= rdr.read
    /\ rdr.read <= rdr.cached
    /\ rdr.cached <= Len(rdr.cache)
    /\ Len(PrefixReader_Prefix(rdr)) = rdr.cached

\* a full cache was replayed to its end by Reads that went on into the
\* source, and WriteTo and Close were called as well
C23_Witness ==
    /\ rdr.r # Nil
    /\ rdr.read = rdr.cached /\ rdr.cached = Len(rdr.cache)
    /\ Len(rdrObs.got) > rdr.cached
    /\ rdrObs.writeTos > 0 /\ rdrObs.closed

\* C24: once Reset has recorded an end-of-data or error condition, no Read
\* and no WriteTo reads the underlying source again; a Read that finds the
\* cache drained returns no byte and the recorded condition; and a WriteTo
\* made when the recorded condition is an error other than end-of-data
\* returns that error.
C24_RecordedConditionIsFinal ==
    rdr.err # "nil" =>
        /\ ~rdrObs.reread
        /\ (rdrObs.last # "none" /\ rdrObs.last # "nil") => rdrObs.last = rdr.err
        /\ (rdrObs.writeTos > 0 /\ rdr.err # "EOF") => rdrObs.wroteErr = rdr.err

\* C25: between two Resets, whatever Reads and WriteTos are made and in
\* whatever order, each byte of the cached prefix is delivered - into a Read
\* buffer or to a WriteTo destination - at most once: the bytes delivered in
\* all are no more than the bytes taken from the source, cached ones included.
C25_CachedBytesDeliveredOnce ==
    rdr.r # Nil =>
        Len(rdrObs.got) + Len(rdrObs.dst) <= rdrSrc.pos

\* C26: whatever WriteHeader, Write and ReadFrom calls the handler makes and
\* in whatever order, the status the response predicates are given and the
\* status the response callback is given are the status the sink committed:
\* the code of the first WriteHeader if no body byte went out before it, and
\* 200 otherwise.
C26_StatusIsTheCommittedOne ==
    (EnabledExchange /\ mw.dumpResponse /\ pc = "idle") =>
        /\ calls.evalStatus = FinalStatus
        /\ calls.resp = 1 => calls.respStatus = FinalStatus

\* the bytes a slice shows now: those of the buffer it is a slice of
ShownOfReader(slice) ==
    SubSeq(heap.readers[slice.inst].cache, 1, Len(slice.bytes))

ShownOfWriter(slice) ==
    SubSeq(heap.writers[slice.inst].PrefixWriter.cache, 1, Len(slice.bytes))

\* C27: the body bytes that the callbacks of an exchange were given keep the
\* values they had when the callback was called, whatever later exchanges do,
\* those that take the same reader or wrapper from the pools included.
C27_CallbackBodiesKeepTheirBytes ==
    /\ heap.lent.req.inst # Nil =>
            ShownOfReader(heap.lent.req) = heap.lent.req.bytes
    /\ heap.lent.resp.inst # Nil =>
            ShownOfWriter(heap.lent.resp) = heap.lent.resp.bytes

====
